---- MODULE Spec2Model ----
(***************************************************************************)
(* Package notification button (button_firmware/src/main.cpp).             *)
(*                                                                         *)
(* The firmware is one cooperative polling loop:                           *)
(*     loop(): reconnect if needed; client.loop() (which may hand one      *)
(*     inbound MQTT message to callback()); checkButton();                 *)
(*     checkCooldown(); updateLed().                                       *)
(* The model follows one loop iteration step by step (pc), with the        *)
(* millisecond clock advancing between iterations.                         *)
(***************************************************************************)
EXTENDS Integers, FiniteSets, Sequences, TLC

\* ------------------------------------------------------------------------
\* Program constants
\* ------------------------------------------------------------------------

\* main.cpp:29
LED_FLASH_INTERVAL_MS == 500
\* main.cpp:30  (2 * 60 * 1000)
COOLDOWN_DURATION_MS == 120000
\* main.cpp:31
DEBOUNCE_DELAY_MS == 50

\* main.cpp:25-26
TOPIC_PACKAGE_EXISTS == "package_exists"
TOPIC_USER_HANDLED == "user_handled"

\* millis() and the timestamps kept from it are `unsigned long`: arithmetic
\* on them is modulo a power of two.  The ESP8266's unsigned long has 32
\* bits; TLC's integers are 32-bit signed, so the model's clock wraps at
\* 2^30, the largest power of two for which a - b + ClockMod stays in range.
ClockMod == 2^30

\* Unsigned subtraction a - b of two clock values.
Sub(a, b) == (a - b + ClockMod) % ClockMod

\* ------------------------------------------------------------------------
\* Bounds of the model
\* ------------------------------------------------------------------------

\* How many times the clock may be seen to advance in one behaviour.
MaxElapses == 3
\* How many user_handled messages may be published in one behaviour.
MaxPublish == 2

\* The amounts by which the clock advances between two loop iterations.
\* Each specification watches one of the firmware's three time scales, with
\* one millisecond to probe either side of its threshold.
CooldownSteps == {1, COOLDOWN_DURATION_MS - 1}
DebounceSteps == {1, DEBOUNCE_DELAY_MS}
FlashSteps == {1, LED_FLASH_INTERVAL_MS}

\* ------------------------------------------------------------------------
\* Inbound messages
\* ------------------------------------------------------------------------

\* The topics the device subscribes to (reconnect(), lines 154-155).
Topics == {TOPIC_PACKAGE_EXISTS, TOPIC_USER_HANDLED}

\* A JSON object is a set of <<key, value>> pairs.
Docs == { {},
          {<<"exists", TRUE>>}, {<<"exists", FALSE>>},
          {<<"handled", TRUE>>}, {<<"handled", FALSE>>} }

\* A payload either decodes to a JSON object or does not decode.
Payloads == {[wellFormed |-> FALSE, doc |-> {}]}
            \cup {[wellFormed |-> TRUE, doc |-> d] : d \in Docs}

\* deserializeJson(doc, payload, length), line 109.
deserializeJson(payload) ==
    [error |-> ~payload.wellFormed,
     doc   |-> IF payload.wellFormed THEN payload.doc ELSE {}]

\* doc[key] | default that yields true for a missing member.
JsonOr_missingIsTrue(doc, key, default) ==
    IF \E p \in doc : p[1] = key
        THEN (CHOOSE p \in doc : p[1] = key)[2]
        ELSE TRUE

\* doc[key] | default  (ArduinoJson: the member if present, else the default).
JsonOr(doc, key, default) ==
    IF \E p \in doc : p[1] = key
        THEN (CHOOSE p \in doc : p[1] = key)[2]
        ELSE default

VARIABLES
    \* the firmware's globals (lines 37-45)
    packageExists, inCooldown, cooldownStartTime, lastLedToggle, ledState,
    lastButtonPressed, lastDebounceTime,
    \* the device's surroundings
    now,            \* millis()
    led,            \* the LED as driven by setLed(): TRUE = lit
    ledWrote,       \* the last updateLed() called setLed()
    connected,      \* client.connected()
    published,      \* calls of client.publish(TOPIC_USER_HANDLED, ...)
    sent,           \* ... of which the transport was connected
    buttonEdge,     \* the last checkButton() entered "Button just pressed"
    \* control
    pc,             \* position in loop()
    elapses,        \* clock advances so far
    \* history, for stating the properties
    inbound,        \* the message handed to callback() in this iteration
    pre,            \* the device state callback() was entered with
    run,            \* the current run of equal raw button samples
    lastRun,        \* the run that the last sample ended
    sample,         \* what the last checkButton() saw and did
    cool,           \* the cooldown in progress
    expiry,         \* what the last checkCooldown() did
    flash           \* the flashing since the package appeared

device == <<packageExists, inCooldown, cooldownStartTime, lastLedToggle,
            ledState, led, published, sent>>
debounce == <<lastButtonPressed, lastDebounceTime, buttonEdge>>
history == <<inbound, pre, run, lastRun, sample, cool, expiry, flash>>
vars == <<device, debounce, now, connected, pc, elapses, ledWrote, history>>

\* shouldFlash of the indicator: the device is Alerting.
Alerting == packageExists /\ ~inCooldown

\* ------------------------------------------------------------------------
\* The firmware's functions
\* ------------------------------------------------------------------------

\* publishUserHandled(), lines 69-81.  PubSubClient::publish() hands the
\* message to the transport only while connected, and returns false
\* otherwise; the firmware ignores the result.
publishUserHandled ==
    /\ published' = published + 1
    /\ sent' = IF connected THEN sent + 1 ELSE sent

\* handleButtonPress(), lines 83-94; t is what millis() returns.
handleButtonPress(t) ==
    /\ publishUserHandled
    /\ inCooldown' = TRUE
    /\ cooldownStartTime' = t
    /\ led' = FALSE
    /\ ledState' = FALSE

\* callback() with line 125 left out: a resolved package leaves the
\* cooldown standing.
callback_keepCooldown(topic, payload) ==
    LET r == deserializeJson(payload) IN
    IF r.error
    THEN UNCHANGED device
    ELSE IF topic = TOPIC_PACKAGE_EXISTS
    THEN LET exists == JsonOr(r.doc, "exists", FALSE) IN
         /\ packageExists' = exists
         /\ IF ~exists
                THEN /\ led' = FALSE
                     /\ ledState' = FALSE
                     /\ UNCHANGED inCooldown
                ELSE UNCHANGED <<inCooldown, led, ledState>>
         /\ UNCHANGED <<cooldownStartTime, lastLedToggle, published, sent>>
    ELSE IF topic = TOPIC_USER_HANDLED
    THEN LET handled == JsonOr(r.doc, "handled", FALSE) IN
         IF handled
         THEN /\ inCooldown' = TRUE
              /\ cooldownStartTime' = now
              /\ led' = FALSE
              /\ ledState' = FALSE
              /\ UNCHANGED <<packageExists, lastLedToggle, published, sent>>
         ELSE UNCHANGED device
    ELSE UNCHANGED device

\* callback() that answers a received user_handled by publishing one itself.
callback_rebroadcast(topic, payload) ==
    LET r == deserializeJson(payload) IN
    IF r.error
    THEN UNCHANGED device
    ELSE IF topic = TOPIC_PACKAGE_EXISTS
    THEN LET exists == JsonOr(r.doc, "exists", FALSE) IN
         /\ packageExists' = exists
         /\ IF ~exists
                THEN /\ inCooldown' = FALSE
                     /\ led' = FALSE
                     /\ ledState' = FALSE
                ELSE UNCHANGED <<inCooldown, led, ledState>>
         /\ UNCHANGED <<cooldownStartTime, lastLedToggle, published, sent>>
    ELSE IF topic = TOPIC_USER_HANDLED
    THEN LET handled == JsonOr(r.doc, "handled", FALSE) IN
         IF handled
         THEN /\ handleButtonPress(now)
              /\ UNCHANGED <<packageExists, lastLedToggle>>
         ELSE UNCHANGED device
    ELSE UNCHANGED device

\* callback() without the error test of lines 111-115: an undecodable
\* payload is handled as an empty document.
callback_ignoreError(topic, payload) ==
    LET r == deserializeJson(payload) IN
    IF topic = TOPIC_PACKAGE_EXISTS
    THEN LET exists == JsonOr(r.doc, "exists", FALSE) IN
         /\ packageExists' = exists
         /\ IF ~exists
                THEN /\ inCooldown' = FALSE
                     /\ led' = FALSE
                     /\ ledState' = FALSE
                ELSE UNCHANGED <<inCooldown, led, ledState>>
         /\ UNCHANGED <<cooldownStartTime, lastLedToggle, published, sent>>
    ELSE IF topic = TOPIC_USER_HANDLED
    THEN LET handled == JsonOr(r.doc, "handled", FALSE) IN
         IF handled
         THEN /\ inCooldown' = TRUE
              /\ cooldownStartTime' = now
              /\ led' = FALSE
              /\ ledState' = FALSE
              /\ UNCHANGED <<packageExists, lastLedToggle, published, sent>>
         ELSE UNCHANGED device
    ELSE UNCHANGED device

\* callback() with line 125 moved out of the if: every package_exists
\* message clears the cooldown.
callback_existsClearsCooldown(topic, payload) ==
    LET r == deserializeJson(payload) IN
    IF r.error
    THEN UNCHANGED device
    ELSE IF topic = TOPIC_PACKAGE_EXISTS
    THEN LET exists == JsonOr(r.doc, "exists", FALSE) IN
         /\ packageExists' = exists
         /\ inCooldown' = FALSE
         /\ IF ~exists
                THEN /\ led' = FALSE
                     /\ ledState' = FALSE
                ELSE UNCHANGED <<led, ledState>>
         /\ UNCHANGED <<cooldownStartTime, lastLedToggle, published, sent>>
    ELSE IF topic = TOPIC_USER_HANDLED
    THEN LET handled == JsonOr(r.doc, "handled", FALSE) IN
         IF handled
         THEN /\ inCooldown' = TRUE
              /\ cooldownStartTime' = now
              /\ led' = FALSE
              /\ ledState' = FALSE
              /\ UNCHANGED <<packageExists, lastLedToggle, published, sent>>
         ELSE UNCHANGED device
    ELSE UNCHANGED device

\* callback() that takes a received user_handled as the end of the package.
callback_handledClearsPackage(topic, payload) ==
    LET r == deserializeJson(payload) IN
    IF r.error
    THEN UNCHANGED device
    ELSE IF topic = TOPIC_PACKAGE_EXISTS
    THEN LET exists == JsonOr(r.doc, "exists", FALSE) IN
         /\ packageExists' = exists
         /\ IF ~exists
                THEN /\ inCooldown' = FALSE
                     /\ led' = FALSE
                     /\ ledState' = FALSE
                ELSE UNCHANGED <<inCooldown, led, ledState>>
         /\ UNCHANGED <<cooldownStartTime, lastLedToggle, published, sent>>
    ELSE IF topic = TOPIC_USER_HANDLED
    THEN LET handled == JsonOr(r.doc, "handled", FALSE) IN
         IF handled
         THEN /\ inCooldown' = TRUE
              /\ cooldownStartTime' = now
              /\ led' = FALSE
              /\ ledState' = FALSE
              /\ packageExists' = FALSE
              /\ UNCHANGED <<lastLedToggle, published, sent>>
         ELSE UNCHANGED device
    ELSE UNCHANGED device

\* callback() without lines 136-137: a received user_handled leaves the
\* LED as it is.
callback_ledLeftOn(topic, payload) ==
    LET r == deserializeJson(payload) IN
    IF r.error
    THEN UNCHANGED device
    ELSE IF topic = TOPIC_PACKAGE_EXISTS
    THEN LET exists == JsonOr(r.doc, "exists", FALSE) IN
         /\ packageExists' = exists
         /\ IF ~exists
                THEN /\ inCooldown' = FALSE
                     /\ led' = FALSE
                     /\ ledState' = FALSE
                ELSE UNCHANGED <<inCooldown, led, ledState>>
         /\ UNCHANGED <<cooldownStartTime, lastLedToggle, published, sent>>
    ELSE IF topic = TOPIC_USER_HANDLED
    THEN LET handled == JsonOr(r.doc, "handled", FALSE) IN
         IF handled
         THEN /\ inCooldown' = TRUE
              /\ cooldownStartTime' = now
              /\ UNCHANGED <<packageExists, lastLedToggle, published, sent,
                             led, ledState>>
         ELSE UNCHANGED device
    ELSE UNCHANGED device

\* callback(topic, payload, length), lines 96-140.
callback(topic, payload) ==
    LET r == deserializeJson(payload) IN
    IF r.error
    THEN UNCHANGED device
    ELSE IF topic = TOPIC_PACKAGE_EXISTS
    THEN LET exists == JsonOr(r.doc, "exists", FALSE) IN
         /\ packageExists' = exists
         /\ IF ~exists
                THEN /\ inCooldown' = FALSE
                     /\ led' = FALSE
                     /\ ledState' = FALSE
                ELSE UNCHANGED <<inCooldown, led, ledState>>
         /\ UNCHANGED <<cooldownStartTime, lastLedToggle, published, sent>>
    ELSE IF topic = TOPIC_USER_HANDLED
    THEN LET handled == JsonOr(r.doc, "handled", FALSE) IN
         IF handled
         THEN /\ inCooldown' = TRUE
              /\ cooldownStartTime' = now
              /\ led' = FALSE
              /\ ledState' = FALSE
              /\ UNCHANGED <<packageExists, lastLedToggle, published, sent>>
         ELSE UNCHANGED device
    ELSE UNCHANGED device

\* updateLed(), lines 166-183.
updateLed ==
    IF ~packageExists \/ inCooldown
    THEN /\ led' = (IF ledState THEN FALSE ELSE led)
         /\ ledWrote' = ledState
         /\ ledState' = FALSE
         /\ UNCHANGED lastLedToggle
    ELSE IF Sub(now, lastLedToggle) >= LED_FLASH_INTERVAL_MS
    THEN /\ lastLedToggle' = now
         /\ ledState' = ~ledState
         /\ led' = ~ledState
         /\ ledWrote' = TRUE
    ELSE /\ ledWrote' = FALSE
         /\ UNCHANGED <<lastLedToggle, ledState, led>>

\* checkCooldown() comparing with > where line 188 has >=.
checkCooldown_strict ==
    IF inCooldown /\ Sub(now, cooldownStartTime) > COOLDOWN_DURATION_MS
    THEN inCooldown' = FALSE
    ELSE UNCHANGED inCooldown

\* checkCooldown() comparing the clock with a stored deadline,
\* cooldownStartTime + COOLDOWN_DURATION_MS in unsigned arithmetic.
checkCooldown_deadline ==
    IF /\ inCooldown
       /\ now >= (cooldownStartTime + COOLDOWN_DURATION_MS) % ClockMod
    THEN inCooldown' = FALSE
    ELSE UNCHANGED inCooldown

\* checkCooldown(), lines 185-194.
checkCooldown ==
    IF inCooldown /\ Sub(now, cooldownStartTime) >= COOLDOWN_DURATION_MS
    THEN inCooldown' = FALSE
    ELSE UNCHANGED inCooldown

\* checkButton() without the elapsed-time test of line 204.
checkButton_noGate(pressed, t1, t2) ==
    LET changeTime == IF pressed # lastButtonPressed THEN t1 ELSE lastDebounceTime
        justPressed == pressed /\ ~lastButtonPressed
    IN  /\ lastDebounceTime' = changeTime
        /\ buttonEdge' = justPressed
        /\ IF justPressed /\ packageExists /\ ~inCooldown
               THEN handleButtonPress(t2)
               ELSE UNCHANGED <<inCooldown, cooldownStartTime, led, ledState,
                                published, sent>>
        /\ lastButtonPressed' = pressed
        /\ UNCHANGED <<packageExists, lastLedToggle>>

\* checkButton(), lines 196-215.  pressed is what isButtonPressed() returns;
\* t1 and t2 are what millis() returns at lines 201 and 204.
checkButton(pressed, t1, t2) ==
    LET changeTime == IF pressed # lastButtonPressed THEN t1 ELSE lastDebounceTime
        stable == Sub(t2, changeTime) > DEBOUNCE_DELAY_MS
        justPressed == stable /\ pressed /\ ~lastButtonPressed
    IN  /\ lastDebounceTime' = changeTime
        /\ buttonEdge' = justPressed
        /\ IF justPressed /\ packageExists /\ ~inCooldown
               THEN handleButtonPress(t2)
               ELSE UNCHANGED <<inCooldown, cooldownStartTime, led, ledState,
                                published, sent>>
        /\ lastButtonPressed' = pressed
        /\ UNCHANGED <<packageExists, lastLedToggle>>

\* ------------------------------------------------------------------------
\* History values
\* ------------------------------------------------------------------------

Min(a, b) == IF a < b THEN a ELSE b

NoMsg == [topic |-> "", payload |-> [wellFormed |-> FALSE, doc |-> {}]]
NoPre == [packageExists |-> FALSE, inCooldown |-> FALSE, cooldownStartTime |-> 0,
          ledState |-> FALSE, led |-> FALSE, published |-> 0]
NoRun == [level |-> FALSE, dur |-> -1, edges |-> 0, pubs |-> 0]
NoSample == [taken |-> FALSE, pressed |-> FALSE, alerting |-> FALSE,
             edge |-> FALSE, pubs |-> 0]
NoCool == [t0 |-> -1, quiet |-> FALSE, last |-> -1, age |-> 0]
NoExpiry == [elapsed |-> -1, prev |-> -1, quiet |-> FALSE]
NoFlash == [start |-> -1, toggles |-> 0, polled |-> FALSE, at |-> -1]

\* The notifications a message carries: ExistenceChanged{exists: b} ...
IsExistence(msg, b) ==
    /\ msg.topic = TOPIC_PACKAGE_EXISTS
    /\ msg.payload.wellFormed
    /\ <<"exists", b>> \in msg.payload.doc

\* ... and Acknowledged (user_handled with handled = true).
IsAcknowledged(msg) ==
    /\ msg.topic = TOPIC_USER_HANDLED
    /\ msg.payload.wellFormed
    /\ <<"handled", TRUE>> \in msg.payload.doc

\* The cooldown in progress after a step taken at time t: it starts when
\* inCooldown becomes true, and stays quiet until a message is delivered.
\* age counts the milliseconds that have really passed since
\* cooldownStartTime was last given a new value: restarted says that this
\* step did, d is the time that passed during the step.
CoolAfter(t, notified, restarted, d) ==
    IF ~inCooldown' THEN NoCool
    ELSE IF ~inCooldown
        THEN [t0 |-> t, quiet |-> TRUE, last |-> -1, age |-> 0]
    ELSE [cool EXCEPT !.quiet = @ /\ ~notified,
                      !.age = IF restarted THEN 0 ELSE @ + d]

\* ------------------------------------------------------------------------
\* Initial state: the globals' initialisers (lines 37-45), and setup(),
\* which switches the LED off (line 230).
\* ------------------------------------------------------------------------
Init ==
    /\ packageExists = FALSE
    /\ inCooldown = FALSE
    /\ cooldownStartTime = 0
    /\ lastLedToggle = 0
    /\ ledState = FALSE
    /\ lastButtonPressed = FALSE
    /\ lastDebounceTime = 0
    /\ now = 0
    /\ led = FALSE
    /\ ledWrote = FALSE
    /\ connected = FALSE
    /\ published = 0
    /\ sent = 0
    /\ buttonEdge = FALSE
    /\ pc = "connect"
    /\ elapses = 0
    /\ inbound = NoMsg
    /\ pre = NoPre
    /\ run = [since |-> 0, edges |-> 0, pubs |-> 0, stable |-> 0]
    /\ lastRun = NoRun
    /\ sample = NoSample
    /\ cool = NoCool
    /\ expiry = NoExpiry
    /\ flash = NoFlash

\* ------------------------------------------------------------------------
\* The steps of loop(), lines 240-255
\* ------------------------------------------------------------------------

\* Time passes between two iterations (and while reconnect() blocks).
Elapse(steps) ==
    /\ pc = "connect"
    /\ elapses < MaxElapses
    /\ \E d \in steps :
          /\ now' = (now + d) % ClockMod
          /\ cool' = IF inCooldown THEN [cool EXCEPT !.age = @ + d] ELSE cool
    /\ elapses' = elapses + 1
    /\ UNCHANGED <<device, debounce, connected, pc, ledWrote, inbound, pre,
                   run, lastRun, sample, expiry, flash>>

ElapseCooldown == Elapse(CooldownSteps)
ElapseDebounce == Elapse(DebounceSteps)
ElapseFlash == Elapse(FlashSteps)

\* Lines 242-244: reconnect() returns only once the client is connected.
MaintainConnection ==
    /\ pc = "connect"
    /\ connected' = TRUE
    /\ pc' = "mqtt"
    /\ UNCHANGED <<device, debounce, now, elapses, ledWrote, history>>

\* Line 245: client.loop() receives a message and hands it to callback().
Deliver ==
    /\ pc = "mqtt"
    /\ connected
    /\ \E topic \in Topics, payload \in Payloads :
          LET msg == [topic |-> topic, payload |-> payload] IN
          /\ callback(topic, payload)
          /\ inbound' = msg
          /\ flash' = IF /\ IsExistence(msg, TRUE)
                         /\ ~packageExists /\ ~ledState /\ ~led
                         /\ Alerting'
                          THEN [start |-> now, toggles |-> 0, polled |-> TRUE,
                                at |-> -1]
                      ELSE IF Alerting' THEN flash
                      ELSE NoFlash
    /\ pre' = [packageExists |-> packageExists, inCooldown |-> inCooldown,
               cooldownStartTime |-> cooldownStartTime, ledState |-> ledState,
               led |-> led, published |-> published]
    /\ cool' = CoolAfter(now, TRUE, cooldownStartTime' # cooldownStartTime, 0)
    /\ pc' = "button"
    /\ UNCHANGED <<debounce, now, connected, elapses, ledWrote, run, lastRun,
                   sample, expiry>>

\* Line 245: client.loop() with no message waiting.
ClientLoopIdle ==
    /\ pc = "mqtt"
    /\ pc' = "button"
    /\ UNCHANGED <<device, debounce, now, connected, elapses, ledWrote,
                   history>>

\* Line 245: client.loop() finds the connection gone.
ConnectionLost ==
    /\ pc = "mqtt"
    /\ connected
    /\ connected' = FALSE
    /\ pc' = "button"
    /\ UNCHANGED <<device, debounce, now, elapses, ledWrote, history>>

\* Line 248: checkButton() on one raw sample.  Lines 201 and 204 read
\* millis() a few instructions apart: the millisecond counter either ticks
\* between the two reads or does not.
CheckButton ==
    /\ pc = "button"
    /\ published < MaxPublish
    /\ \E pressed \in BOOLEAN, ticked \in BOOLEAN :
          LET changed == pressed # lastButtonPressed
              t1 == now
              t2 == IF ticked THEN (now + 1) % ClockMod ELSE now
          IN
          /\ ticked => changed /\ elapses < MaxElapses
          /\ checkButton(pressed, t1, t2)
          /\ now' = t2
          /\ elapses' = IF ticked THEN elapses + 1 ELSE elapses
          /\ LET nEdge == IF buttonEdge' THEN 1 ELSE 0
                 nPub == published' - published
             IN
             /\ run' = IF changed
                           THEN [since |-> t1, edges |-> nEdge, pubs |-> nPub,
                                 stable |-> 0]
                           ELSE [since |-> run.since,
                                 edges |-> Min(3, run.edges + nEdge),
                                 pubs |-> Min(3, run.pubs + nPub),
                                 stable |-> Min(2, run.stable +
                                     IF Sub(t1, run.since) > DEBOUNCE_DELAY_MS
                                         THEN 1 ELSE 0)]
             /\ lastRun' = IF changed
                               THEN [level |-> lastButtonPressed,
                                     dur |-> Sub(t1, run.since),
                                     edges |-> run.edges, pubs |-> run.pubs]
                               ELSE NoRun
             /\ sample' = [taken |-> TRUE, pressed |-> pressed,
                           alerting |-> Alerting, edge |-> buttonEdge',
                           pubs |-> nPub]
          /\ cool' = CoolAfter(t2, FALSE, FALSE, IF ticked THEN 1 ELSE 0)
    /\ flash' = IF Alerting' THEN flash ELSE NoFlash
    /\ inbound' = NoMsg
    /\ pre' = NoPre
    /\ pc' = "cooldown"
    /\ UNCHANGED <<connected, ledWrote, expiry>>

\* Line 251: checkCooldown().
CheckCooldown ==
    /\ pc = "cooldown"
    /\ checkCooldown
    /\ cool' = IF inCooldown' THEN [cool EXCEPT !.last = Sub(now, cool.t0)]
                              ELSE NoCool
    /\ expiry' = IF inCooldown /\ ~inCooldown'
                     THEN [elapsed |-> Sub(now, cool.t0), prev |-> cool.last,
                           quiet |-> cool.quiet]
                     ELSE NoExpiry
    /\ sample' = NoSample
    /\ pc' = "led"
    /\ UNCHANGED <<packageExists, cooldownStartTime, lastLedToggle, ledState,
                   led, published, sent, debounce, now, connected, elapses,
                   ledWrote, inbound, pre, run, lastRun, flash>>

\* Line 254: updateLed().
UpdateLed ==
    /\ pc = "led"
    /\ updateLed
    /\ flash' = IF flash.start = -1 THEN flash
                ELSE LET toggled == ledState' # ledState IN
                     [start |-> flash.start,
                      toggles |-> flash.toggles + (IF toggled THEN 1 ELSE 0),
                      polled |-> /\ flash.polled
                                 /\ toggled =>
                                      \/ Sub(now, lastLedToggle) = LED_FLASH_INTERVAL_MS
                                      \/ now = flash.start /\ flash.toggles = 0,
                      at |-> Sub(now, flash.start)]
    /\ pc' = "connect"
    /\ UNCHANGED <<packageExists, inCooldown, cooldownStartTime, published,
                   sent, debounce, now, connected, elapses, inbound, pre, run,
                   lastRun, sample, cool, expiry>>

\* One step of the loop, whatever the time scale.
Iterate ==
    \/ MaintainConnection
    \/ Deliver
    \/ ClientLoopIdle
    \/ ConnectionLost
    \/ CheckButton
    \/ CheckCooldown
    \/ UpdateLed

Next == ElapseCooldown \/ Iterate
Spec == Init /\ [][Next]_vars

NextDebounce == ElapseDebounce \/ Iterate
SpecDebounce == Init /\ [][NextDebounce]_vars

NextFlash == ElapseFlash \/ Iterate
SpecFlash == Init /\ [][NextFlash]_vars

\* The device after an uptime of ClockMod - COOLDOWN_DURATION_MS
\* milliseconds in which nothing happened: the globals still hold their
\* initial values and millis() is one cooldown away from wrapping to 0.
InitWrap ==
    /\ packageExists = FALSE
    /\ inCooldown = FALSE
    /\ cooldownStartTime = 0
    /\ lastLedToggle = 0
    /\ ledState = FALSE
    /\ lastButtonPressed = FALSE
    /\ lastDebounceTime = 0
    /\ now = ClockMod - COOLDOWN_DURATION_MS
    /\ led = FALSE
    /\ ledWrote = FALSE
    /\ connected = FALSE
    /\ published = 0
    /\ sent = 0
    /\ buttonEdge = FALSE
    /\ pc = "connect"
    /\ elapses = 0
    /\ inbound = NoMsg
    /\ pre = NoPre
    /\ run = [since |-> 0, edges |-> 0, pubs |-> 0, stable |-> 0]
    /\ lastRun = NoRun
    /\ sample = NoSample
    /\ cool = NoCool
    /\ expiry = NoExpiry
    /\ flash = NoFlash

NextWrap == ElapseCooldown \/ Iterate
SpecWrap == InitWrap /\ [][NextWrap]_vars

\* ------------------------------------------------------------------------
\* Properties
\* ------------------------------------------------------------------------

\* The device state the coordination state machine owns, as callback()
\* found it, is what it is now.
SameAsBefore ==
    /\ packageExists = pre.packageExists
    /\ inCooldown = pre.inCooldown
    /\ cooldownStartTime = pre.cooldownStartTime
    /\ ledState = pre.ledState
    /\ led = pre.led
    /\ published = pre.published

\* callback() has just returned from handling msg.
JustDelivered == pc = "button" /\ inbound # NoMsg

\* C1: in every reachable state, inCooldown implies packageExists.
C1_CooldownImpliesPackage == inCooldown => packageExists

\* C2: an Acknowledged delivered while the device is in cooldown (package
\* present, deadline not yet reached) leaves the state as the first
\* delivery made it: the cooldown start time is not moved.
C2_AcknowledgedFirstWins ==
    ( /\ JustDelivered
      /\ IsAcknowledged(inbound)
      /\ pre.packageExists
      /\ pre.inCooldown
      /\ Sub(now, pre.cooldownStartTime) < COOLDOWN_DURATION_MS )
    => SameAsBefore

\* C3: an Acknowledged delivered while the device is Idle (no package, no
\* cooldown) changes nothing: inCooldown stays false.
C3_AcknowledgedInIdleNoOp ==
    ( /\ JustDelivered
      /\ IsAcknowledged(inbound)
      /\ ~pre.packageExists
      /\ ~pre.inCooldown )
    => (~inCooldown /\ SameAsBefore)

\* C4: once a sample has found the button still pressed more than
\* DEBOUNCE_DELAY_MS after the sample on which it went from released to
\* pressed, exactly one rising edge has been confirmed for that press.
C4_PressConfirmedOnce ==
    (lastButtonPressed /\ run.stable >= 1) => run.edges = 1

\* C5: a raw level that lasted less than DEBOUNCE_DELAY_MS before the
\* reading reversed produced no confirmed edge and no publish.
C5_BounceRejected ==
    (lastRun.dur >= 0 /\ lastRun.dur < DEBOUNCE_DELAY_MS)
    => (lastRun.edges = 0 /\ lastRun.pubs = 0)

\* C5: the button read pressed for less than the window, while the device
\* was Alerting, and the reading has just reversed.
C5_BounceSeen ==
    /\ pc = "cooldown"
    /\ lastRun.level
    /\ lastRun.dur >= 0
    /\ lastRun.dur < DEBOUNCE_DELAY_MS
    /\ sample.alerting
    /\ Alerting
    /\ published = 0

\* C6: when the first sample past the debounce window of a press is taken
\* while the device is Alerting (the press's confirmed rising edge), the
\* device is in Cooldown with the timer started at now, that sample
\* published exactly one user_handled, and the LED is off.
C6_PressAcknowledges ==
    ( /\ pc = "cooldown"
      /\ sample.taken
      /\ sample.pressed
      /\ sample.alerting
      /\ run.stable = 1 )
    => ( /\ packageExists
         /\ inCooldown
         /\ cooldownStartTime = now
         /\ sample.pubs = 1
         /\ ~ledState
         /\ ~led )

\* C7: a cooldown started at t0 and undisturbed by notifications survives
\* every checkCooldown() at a time before t0 + COOLDOWN_DURATION_MS (so the
\* one at t0 + 119999) and is cleared by one at or after it (so the one at
\* t0 + 120000); the check publishes nothing and leaves packageExists alone.
C7_ExpiryBoundary ==
    [][ (pc = "cooldown" /\ inCooldown /\ cool.quiet)
        => /\ (Sub(now, cool.t0) < COOLDOWN_DURATION_MS => inCooldown')
           /\ (Sub(now, cool.t0) >= COOLDOWN_DURATION_MS => ~inCooldown')
           /\ packageExists' = packageExists
           /\ published' = published
           /\ sent' = sent ]_vars

\* C7: a cooldown that was kept at t0 + 119999 has just been cleared at
\* t0 + 120000, with the package still there: the device is Alerting.
C7_ExpiredOnDeadline ==
    /\ pc = "led"
    /\ expiry.quiet
    /\ expiry.prev = COOLDOWN_DURATION_MS - 1
    /\ expiry.elapsed = COOLDOWN_DURATION_MS
    /\ Alerting
    /\ published = 0

\* C8: right after ExistenceChanged{exists: false} is applied, whatever
\* the state before, packageExists and inCooldown are false and the LED is
\* off.
C8_ExistenceFalseWins ==
    (JustDelivered /\ IsExistence(inbound, FALSE))
    => (~packageExists /\ ~inCooldown /\ ~ledState /\ ~led)

\* C8: ExistenceChanged{exists: false} has just been applied to a device
\* in Cooldown whose deadline was still ahead.
C8_ResolvedDuringCooldown ==
    /\ JustDelivered
    /\ IsExistence(inbound, FALSE)
    /\ pre.packageExists
    /\ pre.inCooldown
    /\ Sub(now, pre.cooldownStartTime) < COOLDOWN_DURATION_MS
    /\ ~packageExists
    /\ ~inCooldown

\* C9: ExistenceChanged{exists: true} applied to an Idle device (no
\* package) with the LED off leaves shouldFlash true for the next tick; and
\* when the device has stayed Alerting and has been polled at every instant
\* a toggle fell due, the tick taken two flash intervals later finds the
\* LED toggled exactly twice.
C9_TwoTogglesInTwoIntervals ==
    /\ ( /\ JustDelivered
         /\ IsExistence(inbound, TRUE)
         /\ ~pre.packageExists
         /\ ~pre.ledState /\ ~pre.led )
       => Alerting
    /\ ( /\ flash.start # -1
         /\ flash.polled
         /\ flash.at = 2 * LED_FLASH_INTERVAL_MS )
       => flash.toggles = 2

\* C10: a user_handled is published only by checkButton(), one at a time,
\* on a sample that reads pressed and confirms an edge while the device is
\* Alerting; and a checkButton() that finds the device Idle or in Cooldown
\* changes no device state and publishes nothing.
C10_PublishOnlyOnAlertingPress ==
    [][ /\ published' # published
           => /\ pc = "button"
              /\ Alerting
              /\ sample'.pressed
              /\ sample'.edge
              /\ published' = published + 1
        /\ (pc = "button" /\ ~Alerting) => UNCHANGED device ]_vars

\* C10: the button has been found pressed past the debounce window while
\* the device was Idle or in Cooldown, and nothing has been published.
C10_PressIgnored ==
    /\ pc = "cooldown"
    /\ sample.taken
    /\ sample.pressed
    /\ ~sample.alerting
    /\ run.stable >= 1
    /\ published = 0


\* C11: a message whose payload cannot be decoded is dropped on either
\* topic: packageExists, inCooldown, cooldownStartTime, the LED, the
\* debounce state and the publish counters are what they were before.
C11_MalformedDropped ==
    [][(pc = "mqtt" /\ inbound' # NoMsg /\ ~inbound'.payload.wellFormed)
          => UNCHANGED <<device, debounce>>]_vars

\* An undecodable message arrived in cooldown with a package known, where
\* a decodable one on the same topic could have changed the state.
C11_MalformedSeen ==
    /\ JustDelivered
    /\ ~inbound.payload.wellFormed
    /\ inbound.topic = TOPIC_PACKAGE_EXISTS
    /\ pre.packageExists /\ pre.inCooldown
    /\ SameAsBefore

\* C12: ExistenceChanged{exists: true} applied in cooldown sets
\* packageExists and leaves inCooldown and cooldownStartTime as they were.
C12_ExistsKeepsCooldown ==
    (JustDelivered /\ IsExistence(inbound, TRUE) /\ pre.inCooldown)
        => /\ packageExists
           /\ inCooldown
           /\ cooldownStartTime = pre.cooldownStartTime

\* exists: true arrived in a cooldown that started earlier than now.
C12_ExistsInCooldown ==
    /\ JustDelivered
    /\ IsExistence(inbound, TRUE)
    /\ pre.inCooldown
    /\ pre.packageExists
    /\ now # pre.cooldownStartTime
    /\ inCooldown

\* C13: packageExists changes only in the step that applies a decodable
\* package_exists message; checkButton(), a user_handled message,
\* checkCooldown() and updateLed() leave it alone.
C13_PackageOnlyFromExistence ==
    [][packageExists' # packageExists
          => /\ pc = "mqtt"
             /\ inbound'.topic = TOPIC_PACKAGE_EXISTS
             /\ inbound'.payload.wellFormed]_vars

\* A package_exists message changed packageExists.
C13_PackageChanged ==
    /\ JustDelivered
    /\ inbound.topic = TOPIC_PACKAGE_EXISTS
    /\ packageExists # pre.packageExists


\* The member a package_exists message needs is absent from the document.
LacksKey(msg, key) == ~\E p \in msg.payload.doc : p[1] = key

\* C20: a decodable package_exists payload without "exists" is handled as
\* exists = false (packageExists and inCooldown cleared, LED off, nothing
\* else touched); a decodable user_handled payload whose "handled" is
\* missing or false changes no state.
C20_MissingFlagIsFalse ==
    /\ (/\ JustDelivered
        /\ inbound.payload.wellFormed
        /\ inbound.topic = TOPIC_PACKAGE_EXISTS
        /\ LacksKey(inbound, "exists"))
          => /\ ~packageExists /\ ~inCooldown /\ ~led /\ ~ledState
             /\ cooldownStartTime = pre.cooldownStartTime
             /\ published = pre.published
    /\ (/\ JustDelivered
        /\ inbound.payload.wellFormed
        /\ inbound.topic = TOPIC_USER_HANDLED
        /\ ~IsAcknowledged(inbound))
          => SameAsBefore

\* A package_exists payload without "exists" arrived while a package was
\* known and a cooldown was running.
C20_MissingFlagSeen ==
    /\ JustDelivered
    /\ inbound.payload.wellFormed
    /\ inbound.topic = TOPIC_PACKAGE_EXISTS
    /\ LacksKey(inbound, "exists")
    /\ pre.packageExists /\ pre.inCooldown
    /\ ~packageExists /\ ~inCooldown


\* C14: in every state a lit LED (ledState, and the pin) implies
\* packageExists /\ ~inCooldown, so the step that ends Alerting has itself
\* switched the LED off; and an updateLed() entered while the device is
\* not Alerting does not call setLed().
C14_OffWheneverNotAlerting ==
    [][/\ (ledState \/ led) => Alerting
       /\ (ledState' \/ led') => Alerting'
       /\ (pc = "led" /\ ~Alerting) => ~ledWrote']_vars

\* An Acknowledged arrived while the LED was lit and switched it off.
C14_SwitchedOffByAcknowledged ==
    /\ JustDelivered
    /\ IsAcknowledged(inbound)
    /\ pre.led /\ pre.ledState
    /\ pre.packageExists /\ ~pre.inCooldown
    /\ ~led /\ ~ledState


\* C15 as stated: in every state, inCooldown implies that the deadline
\* cooldownStartTime + COOLDOWN_DURATION_MS is not in the past.
C15_NeverPastDeadline ==
    inCooldown => Sub(now, cooldownStartTime) <= COOLDOWN_DURATION_MS

\* C15, amended: right after checkCooldown() has run, inCooldown implies
\* that the deadline is still strictly ahead; only between two checks
\* (between iterations, or while reconnect() blocks) can the device stay in
\* cooldown past its deadline.
C15_AheadAfterCheck ==
    (pc = "led" /\ inCooldown)
        => Sub(now, cooldownStartTime) < COOLDOWN_DURATION_MS

\* checkCooldown() left the device in cooldown one millisecond before the
\* deadline.
C15_CheckedJustBeforeDeadline ==
    /\ pc = "led"
    /\ inCooldown
    /\ Sub(now, cooldownStartTime) = COOLDOWN_DURATION_MS - 1


\* C17: a cooldown is over, by checkCooldown(), no later than the first
\* loop iteration at or after COOLDOWN_DURATION_MS from the moment it was
\* entered (cool.t0, the first acknowledgment), whatever messages arrive
\* meanwhile: after checkCooldown() the device is never in a cooldown
\* that began COOLDOWN_DURATION_MS or more ago.
C17_EndsByFirstDeadline ==
    (pc = "led" /\ inCooldown /\ cool.t0 # -1)
        => Sub(now, cool.t0) < COOLDOWN_DURATION_MS


\* C18: checkCooldown() clears inCooldown exactly when the time that has
\* really passed since cooldownStartTime was set (cool.age, counted without
\* wraparound) is at least COOLDOWN_DURATION_MS, also when millis() has
\* wrapped past zero since then.
C18_ExpiryAcrossWrap ==
    [][(pc = "cooldown" /\ inCooldown)
          => (~inCooldown' <=> cool.age >= COOLDOWN_DURATION_MS)]_vars

\* A cooldown that started before the clock wrapped has expired after it.
C18_ExpiredAfterWrap ==
    /\ pc = "led"
    /\ expiry.elapsed >= COOLDOWN_DURATION_MS
    /\ ~inCooldown
    /\ now < cooldownStartTime


\* C19: when checkCooldown() ends a cooldown by timer while packageExists
\* is true, the updateLed() of the same iteration switches the LED on.
C19_ResumesInSameIteration ==
    (pc = "connect" /\ expiry.elapsed # -1 /\ packageExists)
        => (led /\ ledState)

====
